---- MODULE Spec2Model ----
(***************************************************************************)
(* ChatLab: the LINE native TXT parser (parseLINE) and the database        *)
(* migration system (migrateDatabase), as state machines.                  *)
(*                                                                         *)
(*   SpecLine  the parser run over a bounded export file                   *)
(*   SpecMig   a store opened (migrated) any number of times               *)
(***************************************************************************)
EXTENDS Integers, Sequences, FiniteSets, TLC

VARIABLES
  \* ---- parseLINE: inputs
  lines,            \* the file split into lines (each named, see LineOf)
  batchSize,        \* options.batchSize
  fileOk,           \* whether fs.readFileSync succeeds
  \* ---- parseLINE: locals
  pc,               \* position of the generator
  currentDate,      \* rolling current date (NoDate = null)
  chatName,         \* "file" (from the file name) or "header"
  isPrivateChat,
  useTabSeparator,
  memberMap,        \* Map<string, ParsedMember>: platformIds in insertion order
  messages,         \* ParsedMessage[]; lastMessage is its last element
  lineIdx,          \* loop variable i of the line loop (0-based)
  messagesProcessed,
  batchIdx,         \* loop variable i of the batch loop
  wallClock,        \* the day new Date() last returned (NoDate: not read yet)
  \* ---- parseLINE: outputs
  events,           \* the events yielded so far
  progressLog,      \* messagesProcessed at each onProgress call
  \* ---- parseLINE: the caller
  cancelAt,         \* <<>>, or <<n>>: cancellation was requested after n events
  \* ---- migrations
  db,               \* the store: tables, columns, index, meta rows
  mpc,              \* position of migrateDatabase
  snap,             \* the store at BEGIN (what ROLLBACK restores)
  pending,          \* pendingMigrations still to run in this call
  applied,          \* versions whose up() ran in this call
  readback,         \* getSchemaVersion right after each setSchemaVersion
  ret,              \* what the call returned
  pre,              \* the store when the call started
  calls,            \* finished calls since Init: <<pre, post, outcome, ret, applied>>
  \* ---- SQL Lab
  sql,              \* the statement in the editor
  isExecuting,
  error,            \* "null" or a message
  result,           \* <<>> (null) or <<SQLResult>>
  inflight,         \* calls of window.chatApi.executeSQL that have not settled
  started,          \* number of such calls made so far
  sqlStore,         \* rows of the message table of the corpus
  sqlLog,           \* the settled calls: statement, store before and after, outcome
  \* ---- analysis views
  chat,             \* sender_name of the rows of messages, in timestamp order
  monologue,        \* <<>>, or <<[of, rank]>>: the streak statistics of chat `of`
  member,           \* the member record handed to the owner selector
  shown,            \* <<>>, or <<[of, name]>>: the name displayed for member `of`
  \* ---- a second parse of the same file
  firstRun,         \* <<>>, or <<events>>: the events of the parse that ran before
  \* ---- the time of a message line
  timeStr,          \* <<>>, or <<t>>: the time string a message pattern captured
  stamp,            \* <<>>, or <<[branch, of, day, hours, minutes, timestamp]>>
  \* ---- the type of a content
  contentIn,        \* <<>>, or <<c>>: the content string of a message line
  detected,         \* <<>>, or <<[of, type]>>: the type detected for contentIn `of`
  \* ---- the chat record drawer
  showChatRecordDrawer,  \* layoutStore.showChatRecordDrawer
  currentSessionId,      \* sessionStore.currentSessionId, Undefined when there is none
  sessions,              \* what sessionApi.getSessions returns for the current session
  localQuery,
  messageCount,
  activeSessionId,       \* Undefined when no session is active
  sessionsCache,
  watchers,              \* the runs of the watch callback that are suspended at an await
  visibleLog             \* <<>>, or <<[messageId, cache, before, after]>>: the last call
                         \* of handleVisibleMessageChange

lineVars == <<lines, batchSize, fileOk, pc, currentDate, chatName, isPrivateChat,
              useTabSeparator, memberMap, messages, lineIdx, messagesProcessed,
              batchIdx, wallClock, events, progressLog, cancelAt>>
migVars == <<db, mpc, snap, pending, applied, readback, ret, pre, calls>>
sqlVars == <<sql, isExecuting, error, result, inflight, started, sqlStore, sqlLog>>
monoVars == <<chat, monologue>>
ownerVars == <<member, shown>>
replayVars == <<firstRun>>
clockVars == <<timeStr, stamp>>
typeVars == <<contentIn, detected>>
drawerVars == <<showChatRecordDrawer, currentSessionId, sessions, localQuery, messageCount,
                activeSessionId, sessionsCache, watchers, visibleLog>>
viewVars == <<monoVars, ownerVars, replayVars, clockVars, typeVars, drawerVars>>
vars == <<lineVars, migVars, sqlVars, viewVars>>

(***************************************************************************)
(* Bounds of the model                                                     *)
(***************************************************************************)
MaxBodyLines == 3
MaxBatchSize == 2
MaxDialogueLines == 3
MaxTailLines == 2
MaxSqlCalls == 2
MaxChatLen == 10
MaxReplayLines == 2
MaxContentTokens == 3
MaxSessions == 2
MaxMessageId == 3
MaxWatchers == 2
MaxExtraEvents == 4
MaxMetaRows == 2
MaxStoredVersion == 3
MaxCalls == 2

(***************************************************************************)
(* Small helpers                                                           *)
(***************************************************************************)
SeqsUpTo(S, n) == UNION {[1..k -> S] : k \in 0..n}

Range(s) == {s[k] : k \in 1..Len(s)}

Contains(s, x) == \E k \in 1..Len(s) : s[k] = x

RECURSIVE FlattenSeq(_)
FlattenSeq(ss) == IF ss = <<>> THEN <<>> ELSE Head(ss) \o FlattenSeq(Tail(ss))

\* Array.prototype.slice(from, to) for 0 <= from <= to, 0-based, end exclusive
Slice(arr, from, to) ==
  LET hi == IF to > Len(arr) THEN Len(arr) ELSE to
  IN IF from >= hi THEN <<>> ELSE SubSeq(arr, from + 1, hi)

(***************************************************************************)
(* The export file.  A line is classified by the patterns the parser       *)
(* applies to it; its fields are what the patterns capture.                *)
(*   header  first line matched by extractNameFromHeader                   *)
(*   date    matched by one of DATE_PATTERNS                               *)
(*   msg     TIME<sep>sender<sep>content, sep a tab or a space             *)
(*   sys     TIME<tab><tab>content                                         *)
(*   text    any other non-blank line                                      *)
(*   blank   line.trim() is empty                                          *)
(* A content is written sq/body/eq: it opens with a double quote (sq),     *)
(* then body, then it ends with a double quote (eq).                       *)
(***************************************************************************)
NoDate == 0
Days == {1, 2}
WallClockDays == {3, 4}
Senders == {"Alice", "Bob", "Carol"}

\* time stamps: HH:MM with an optional prefix (zh_am = 上午, zh_pm = 下午,
\* ja_am = 午前, ja_pm = 午後) and an optional am/pm suffix
Time(prefix, h, m, suffix) == [prefix |-> prefix, h |-> h, m |-> m, suffix |-> suffix]
NoTime == Time("", 0, 0, "")

Line(kind, isGroup, day, sep, time, sender, sq, body, eq) ==
  [kind |-> kind, isGroup |-> isGroup, day |-> day, sep |-> sep, time |-> time,
   sender |-> sender, sq |-> sq, body |-> body, eq |-> eq]
HeaderLine(isGroup) == Line("header", isGroup, NoDate, "", NoTime, "", FALSE, "", FALSE)
DateLine(day) == Line("date", FALSE, day, "", NoTime, "", FALSE, "", FALSE)
MsgLine(sep, time, sender, sq, body, eq) ==
  Line("msg", FALSE, NoDate, sep, time, sender, sq, body, eq)
SysLine(time, body) == Line("sys", FALSE, NoDate, "tab", time, "", FALSE, body, FALSE)
TextLine(body, eq) == Line("text", FALSE, NoDate, "", NoTime, "", FALSE, body, eq)
BlankLine == Line("blank", FALSE, NoDate, "", NoTime, "", FALSE, "", FALSE)

T1015 == Time("", 10, 15, "")
T0704pm == Time("zh_pm", 7, 4, "")

\* the lines of the model's files, by name
LineOf(name) ==
  CASE name = "hdrGroup" -> HeaderLine(TRUE)
    [] name = "hdrPrivate" -> HeaderLine(FALSE)
    [] name = "savedOn" -> TextLine("Saved on", FALSE)
    [] name = "date1" -> DateLine(1)
    [] name = "blank" -> BlankLine
    [] name = "more" -> TextLine("more", FALSE)
    [] name = "sysJoined" -> SysLine(T0704pm, "Dave joined the group")
    [] name = "aliceHi" -> MsgLine("tab", T1015, "Alice", FALSE, "hi", FALSE)
    [] name = "bobPhoto" -> MsgLine("tab", T1015, "Bob", FALSE, "[Photo]", FALSE)
    [] name = "carolQuoted" -> MsgLine("tab", T0704pm, "Carol", TRUE, "long", FALSE)
    [] name = "aliceSpaced" -> MsgLine("space", T1015, "Alice", FALSE, "hi", FALSE)
    [] name = "date2" -> DateLine(2)
    [] name = "endq" -> TextLine("end", TRUE)
    [] name = "bobAudioJoined" ->
         MsgLine("tab", T0704pm, "Bob", FALSE, "Audio joined the group", FALSE)

\* lines a body is drawn from
BodyAlphabet ==
  {"date1", "blank", "more", "sysJoined", "aliceHi", "bobPhoto", "carolQuoted",
   "aliceSpaced"}

\* the three header lines of an export: title, "Saved on: ...", empty line
HeaderBlock(isGroup) ==
  <<IF isGroup THEN "hdrGroup" ELSE "hdrPrivate", "savedOn", "blank">>

Files ==
  LET bodies == SeqsUpTo(BodyAlphabet, MaxBodyLines)
  IN bodies \cup {HeaderBlock(g) \o b : g \in BOOLEAN, b \in bodies}

\* lines of a tab-separated dialogue: quoted multi-line messages, two dates,
\* notices
DialogueAlphabet ==
  {"date1", "date2", "blank", "more", "endq", "sysJoined", "aliceHi", "carolQuoted",
   "bobAudioJoined"}

DialogueFiles ==
  {HeaderBlock(TRUE) \o b : b \in SeqsUpTo(DialogueAlphabet, MaxDialogueLines)}

(***************************************************************************)
(* Pure helpers of the parser                                              *)
(***************************************************************************)
\* extractNameFromHeader(firstLine) # null
HeaderRecognized(ls) == Len(ls) > 0 /\ LineOf(ls[1]).kind = "header"

MatchesPrivatePattern(l) == l.kind = "msg" /\ l.sep = "tab"
MatchesGroupPattern(l) == l.kind = "msg" /\ l.sep = "space"
MatchesSystemPattern(l) == l.kind = "sys"

\* the scan for the first message line, which fixes the separator
RECURSIVE ScanSeparator(_, _, _)
ScanSeparator(ls, k, dflt) ==
  IF k > Len(ls) THEN dflt
  ELSE IF MatchesPrivatePattern(LineOf(ls[k])) THEN TRUE
  ELSE IF MatchesGroupPattern(LineOf(ls[k])) THEN FALSE
  ELSE ScanSeparator(ls, k + 1, dflt)

\* toLowerCase on the suffixes [AaPp][Mm]
ToLowerCase(x) ==
  CASE x \in {"AM", "Am", "aM"} -> "am"
    [] x \in {"PM", "Pm", "pM"} -> "pm"
    [] OTHER -> x

\* mutant of Hour24: a PM marker adds 12 to every hour up to 12
Hour24NoonShifted(t) ==
  LET h1 == IF ToLowerCase(t.suffix) = "pm" /\ t.h <= 12 THEN t.h + 12 ELSE t.h
      h2 == IF ToLowerCase(t.suffix) = "am" /\ h1 = 12 THEN 0 ELSE h1
      h3 == IF t.prefix \in {"zh_pm", "ja_pm"} /\ h2 <= 12 THEN h2 + 12 ELSE h2
      h4 == IF t.prefix \in {"zh_am", "ja_am"} /\ h3 = 12 THEN 0 ELSE h3
  IN h4

\* the hour of a time stamp on the 24-hour clock
Hour24(t) ==
  LET h1 == IF ToLowerCase(t.suffix) = "pm" /\ t.h < 12 THEN t.h + 12 ELSE t.h
      h2 == IF ToLowerCase(t.suffix) = "am" /\ h1 = 12 THEN 0 ELSE h1
      h3 == IF t.prefix \in {"zh_pm", "ja_pm"} /\ h2 < 12 THEN h2 + 12 ELSE h2
      h4 == IF t.prefix \in {"zh_am", "ja_am"} /\ h3 = 12 THEN 0 ELSE h3
  IN h4

\* seconds since the epoch of day `day` (days counted from the epoch) at time t
Timestamp(day, t) == ((day * 24 + Hour24(t)) * 60 + t.m) * 60

\* A content string is a sequence of tokens, cut where the patterns of
\* detectMessageType begin and end: startsWith(p) is "the first token is p",
\* includes(p) is "some token is p", === p is "the only token is p".
TokensOf(body) ==
  CASE body = "" -> <<>>
    [] body = "Audio joined the group" -> <<"Audio", " joined the group">>
    [] body = "Dave joined the group" -> <<"Dave", " joined the group">>
    [] body = "https://line.me" -> <<"https://", "line.me">>
    [] OTHER -> <<body>>

FirstToken(c) == IF c = <<>> THEN "" ELSE Head(c)

\* SPECIAL_MESSAGE_TYPES, in the order of its entries (the English keys; the
\* keys of the other languages map to the same types)
SPECIAL_MESSAGE_TYPES ==
  << <<"[Photo]", "image">>, <<"Photos", "image">>,
     <<"[Voice message]", "voice">>, <<"Audio", "voice">>,
     <<"[Video]", "video">>, <<"Videos", "video">>,
     <<"[File]", "file">>,
     <<"[Sticker]", "emoji">>, <<"Stickers", "emoji">>,
     <<"[Location]", "location">>,
     <<"[Notes]", "text">> >>

\* the type of the first entry whose key the content starts with, else "none"
SpecialTypeOfTokens(c) ==
  LET hits == {k \in 1..Len(SPECIAL_MESSAGE_TYPES) :
                 SPECIAL_MESSAGE_TYPES[k][1] = FirstToken(c)}
  IN IF hits = {} THEN "none"
     ELSE SPECIAL_MESSAGE_TYPES[CHOOSE k \in hits : \A j \in hits : k <= j][2]

\* startsWith('[null]') && includes('maps.google.com')
IsNullMapLocation(c) == FirstToken(c) = "[null]" /\ Contains(c, "maps.google.com")

\* the phrases looked for with includes
SystemPhrases ==
  {" joined the group", " added ", " to the group", " left the group",
   "made an announcement", "unsent a message"}

HasSystemPhraseTokens(c) ==
  \/ \E k \in 1..Len(c) : c[k] \in SystemPhrases
  \/ c = <<"Message unsent.">>
  \/ FirstToken(c) = "Auto-reply"

\* match(/^https?:\/\//)
IsLinkTokens(c) == FirstToken(c) \in {"http://", "https://"}

\* mutant of detectTokens: the system phrases are looked at before the table
detectTokensPhrasesFirst(c) ==
  IF HasSystemPhraseTokens(c) THEN "system"
  ELSE IF SpecialTypeOfTokens(c) # "none" THEN SpecialTypeOfTokens(c)
  ELSE IF IsNullMapLocation(c) THEN "location"
  ELSE IF IsLinkTokens(c) THEN "link"
  ELSE "text"

detectTokens(c) ==
  IF SpecialTypeOfTokens(c) # "none" THEN SpecialTypeOfTokens(c)
  ELSE IF IsNullMapLocation(c) THEN "location"
  ELSE IF HasSystemPhraseTokens(c) THEN "system"
  ELSE IF IsLinkTokens(c) THEN "link"
  ELSE "text"

\* detectMessageType on the contents of the alphabet
SpecialTypeOf(body) == SpecialTypeOfTokens(TokensOf(body))
HasSystemPhrase(body) == HasSystemPhraseTokens(TokensOf(body))
IsLink(body) == IsLinkTokens(TokensOf(body))

detectMessageType(body) == detectTokens(TokensOf(body))

\* a piece of content: one line of text, tq when it keeps a trailing double quote
Piece(text, tq) == [text |-> text, tq |-> tq]

ParsedMessage(sender, ts, type, content, quoted) ==
  [senderPlatformId |-> sender, timestamp |-> ts, type |-> type,
   content |-> content, isQuotedMultiline |-> quoted]

\* the content of a message line after the quote handling; <<>> is null
MsgContent(l) ==
  LET tq == IF l.sq THEN FALSE ELSE l.eq
  IN IF l.body = "" /\ ~tq THEN <<>> ELSE <<Piece(l.body, tq)>>

\* the raw text of a line that is appended to the previous message
RawPiece(l) == Piece(IF l.kind = "msg" THEN "msgline" ELSE l.body, l.eq)

\* lastMessage with a continuation line appended
AppendLine(m, l) ==
  LET raw == RawPiece(l)
      closes == m.isQuotedMultiline /\ raw.tq
      piece == IF closes THEN Piece(raw.text, FALSE) ELSE raw
      keep == ~(piece.text = "" /\ ~piece.tq /\ m.content = <<>>)
  IN [m EXCEPT !.content = IF keep THEN @ \o <<piece>> ELSE @,
               !.isQuotedMultiline = IF closes THEN FALSE ELSE @]

\* the type of chat of the meta event
ChatTypeOf(memberCount) == IF memberCount <= 2 THEN "private" ELSE "group"

Event(type, data) == [type |-> type, data |-> data]

(***************************************************************************)
(* parseLINE                                                               *)
(***************************************************************************)
ProgressEvery == 1000

IdleStore == [tables |-> {}, metaCols |-> {}, memberCols |-> {}, messageCols |-> {},
              indexes |-> {}, metaRows |-> <<>>,
              cells |-> [c \in {"owner_id", "roles", "reply_to_message_id",
                                "platform_message_id"} |-> "absent"]]

\* the SQL Lab is not mounted
SqlIdle ==
  /\ sql = "selectLimit10" /\ isExecuting = FALSE /\ error = "null" /\ result = <<>>
  /\ inflight = {} /\ started = 0 /\ sqlStore = 0 /\ sqlLog = <<>>

\* undefined, where a number is expected
Undefined == 0

\* no analysis view is open
MonoIdle == chat = <<>> /\ monologue = <<>>
\* no member is being displayed
OwnerIdle == member = <<>> /\ shown = <<>>
\* no parse ran before
ReplayIdle == firstRun = <<>>
ClockIdle == timeStr = <<>> /\ stamp = <<>>
TypeIdle == contentIn = <<>> /\ detected = <<>>
\* the drawer is not mounted
DrawerIdle ==
  /\ showChatRecordDrawer = FALSE /\ currentSessionId = Undefined /\ sessions = <<>>
  /\ localQuery = "empty" /\ messageCount = 0 /\ activeSessionId = Undefined
  /\ sessionsCache = <<>> /\ watchers = <<>> /\ visibleLog = <<>>

ViewIdle ==
  /\ MonoIdle /\ OwnerIdle /\ ReplayIdle /\ ClockIdle /\ TypeIdle /\ DrawerIdle

MigIdle ==
  /\ db = IdleStore /\ mpc = "off" /\ snap = IdleStore /\ pending = <<>>
  /\ applied = <<>> /\ readback = <<>> /\ ret = "none" /\ pre = IdleStore
  /\ calls = <<>>

InitLine ==
  /\ fileOk \in BOOLEAN
  /\ lines \in (IF fileOk THEN Files ELSE {<<>>})
  /\ batchSize \in 0..MaxBatchSize
  /\ pc = "start"
  /\ currentDate = NoDate
  /\ chatName = "file"
  /\ isPrivateChat = FALSE
  /\ useTabSeparator = FALSE
  /\ memberMap = <<>>
  /\ messages = <<>>
  /\ lineIdx = 0
  /\ messagesProcessed = 0
  /\ batchIdx = 0
  /\ wallClock = NoDate
  /\ events = <<>>
  /\ progressLog = <<>>
  /\ cancelAt = <<>>
  /\ MigIdle
  /\ SqlIdle
  /\ ViewIdle

\* yield the initial progress event and call onProgress
YieldInitialProgress ==
  /\ pc = "start"
  /\ events' = Append(events, Event("progress", [phase |-> "parsing", n |-> 0]))
  /\ progressLog' = Append(progressLog, 0)
  /\ pc' = "read"
  /\ UNCHANGED <<lines, batchSize, fileOk, currentDate, chatName, isPrivateChat,
                 useTabSeparator, memberMap, messages, lineIdx, messagesProcessed,
                 batchIdx, wallClock>>
  /\ UNCHANGED <<cancelAt, migVars, sqlVars, viewVars>>

\* read the whole file, detect the header, fix the separator
ReadFile ==
  /\ pc = "read"
  /\ IF ~fileOk
       THEN /\ pc' = "thrown"
            /\ UNCHANGED <<chatName, isPrivateChat, useTabSeparator, lineIdx>>
       ELSE LET hdr == HeaderRecognized(lines)
                priv == hdr /\ ~LineOf(lines[1]).isGroup
            IN /\ chatName' = IF hdr THEN "header" ELSE "file"
               /\ isPrivateChat' = priv
               /\ useTabSeparator' =
                    IF ~priv /\ Len(lines) > 0 THEN ScanSeparator(lines, 1, hdr) ELSE hdr
               /\ lineIdx' = IF hdr THEN 3 ELSE 0
               /\ pc' = "loop"
  /\ UNCHANGED <<lines, batchSize, fileOk, currentDate, memberMap, messages,
                 messagesProcessed, batchIdx, wallClock, events, progressLog>>
  /\ UNCHANGED <<cancelAt, migVars, sqlVars, viewVars>>

\* mutant of RollDate: the first date line of the file dates every message
RollDateKeepFirst(cur, day) == IF cur = NoDate THEN day ELSE cur

\* currentDate after a date line
RollDate(cur, day) == day

\* one iteration of the line loop
ParseLine ==
  /\ pc = "loop"
  /\ lineIdx < Len(lines)
  /\ LET l == LineOf(lines[lineIdx + 1])
         msgMatch == IF useTabSeparator THEN MatchesPrivatePattern(l)
                                        ELSE MatchesGroupPattern(l)
         stamped == l.kind # "date" /\ (msgMatch \/ MatchesSystemPattern(l))
         readsClock == stamped /\ currentDate = NoDate
     IN \E now \in (IF readsClock THEN {d \in WallClockDays : d >= wallClock}
                                  ELSE {wallClock}) :
          LET ts == Timestamp(IF currentDate # NoDate THEN currentDate ELSE now, l.time)
          IN /\ wallClock' = now
             /\ IF l.kind = "date"
                  THEN /\ currentDate' = RollDate(currentDate, l.day)
                       /\ UNCHANGED <<memberMap, messages, messagesProcessed, progressLog>>
                ELSE IF msgMatch
                  THEN /\ memberMap' = IF Contains(memberMap, l.sender) THEN memberMap
                                       ELSE Append(memberMap, l.sender)
                       /\ messages' = Append(messages,
                            ParsedMessage(l.sender, ts, detectMessageType(l.body),
                                          MsgContent(l), l.sq /\ ~l.eq))
                       /\ messagesProcessed' = messagesProcessed + 1
                       /\ progressLog' = IF (messagesProcessed + 1) % ProgressEvery = 0
                                           THEN Append(progressLog, messagesProcessed + 1)
                                           ELSE progressLog
                       /\ UNCHANGED currentDate
                ELSE IF MatchesSystemPattern(l)
                  THEN /\ messages' = Append(messages,
                            ParsedMessage("system", ts, "system",
                                          IF l.body = "" THEN <<>> ELSE <<Piece(l.body, FALSE)>>,
                                          FALSE))
                       /\ messagesProcessed' = messagesProcessed + 1
                       /\ UNCHANGED <<currentDate, memberMap, progressLog>>
                ELSE IF l.kind # "blank" /\ Len(messages) > 0
                  THEN /\ messages' = [messages EXCEPT ![Len(messages)] = AppendLine(@, l)]
                       /\ UNCHANGED <<currentDate, memberMap, messagesProcessed, progressLog>>
                ELSE UNCHANGED <<currentDate, memberMap, messages, messagesProcessed,
                                 progressLog>>
  /\ lineIdx' = lineIdx + 1
  /\ UNCHANGED <<lines, batchSize, fileOk, pc, chatName, isPrivateChat, useTabSeparator,
                 batchIdx, events>>
  /\ UNCHANGED <<cancelAt, migVars, sqlVars, viewVars>>

\* the chat type of the meta event: decided by the number of members
MetaChatType == ChatTypeOf(Len(memberMap))

\* after the last line: yield meta
YieldMeta ==
  /\ pc = "loop"
  /\ lineIdx >= Len(lines)
  /\ events' = Append(events, Event("meta", [name |-> chatName, platform |-> "line",
                                             type |-> MetaChatType]))
  /\ pc' = "members"
  /\ UNCHANGED <<lines, batchSize, fileOk, currentDate, chatName, isPrivateChat,
                 useTabSeparator, memberMap, messages, lineIdx, messagesProcessed,
                 batchIdx, wallClock, progressLog>>
  /\ UNCHANGED <<cancelAt, migVars, sqlVars, viewVars>>

\* mutant of YieldMembers: the members event is never yielded
YieldMembersSkipped ==
  /\ pc = "members"
  /\ batchIdx' = 0
  /\ pc' = "batches"
  /\ UNCHANGED <<lines, batchSize, fileOk, currentDate, chatName, isPrivateChat,
                 useTabSeparator, memberMap, messages, lineIdx, messagesProcessed,
                 wallClock, progressLog, events>>
  /\ UNCHANGED <<cancelAt, migVars, sqlVars, viewVars>>

\* yield members: the values of memberMap
YieldMembers ==
  /\ pc = "members"
  /\ events' = Append(events, Event("members",
       [k \in 1..Len(memberMap) |-> [platformId |-> memberMap[k],
                                     accountName |-> memberMap[k]]]))
  /\ batchIdx' = 0
  /\ pc' = "batches"
  /\ UNCHANGED <<lines, batchSize, fileOk, currentDate, chatName, isPrivateChat,
                 useTabSeparator, memberMap, messages, lineIdx, messagesProcessed,
                 wallClock, progressLog>>
  /\ UNCHANGED <<cancelAt, migVars, sqlVars, viewVars>>

\* mutant of NextBatch: the slice ends one element late
NextBatchOverlap(i) == Slice(messages, i, i + batchSize + 1)

\* messages.slice(i, i + batchSize)
NextBatch(i) == Slice(messages, i, i + batchSize)

\* the step of the batch loop: i += batchSize
NextBatchIdx(i) == i + batchSize

\* one iteration of the batch loop: yield a messages batch
YieldBatch ==
  /\ pc = "batches"
  /\ batchIdx < Len(messages)
  /\ Len(events) < MaxBodyLines + MaxExtraEvents
  /\ events' = Append(events, Event("messages", NextBatch(batchIdx)))
  /\ batchIdx' = NextBatchIdx(batchIdx)
  /\ UNCHANGED <<lines, batchSize, fileOk, pc, currentDate, chatName, isPrivateChat,
                 useTabSeparator, memberMap, messages, lineIdx, messagesProcessed,
                 wallClock, progressLog>>
  /\ UNCHANGED <<cancelAt, migVars, sqlVars, viewVars>>

\* after the batch loop: yield the final progress event and call onProgress
YieldDoneProgress ==
  /\ pc = "batches"
  /\ batchIdx >= Len(messages)
  /\ events' = Append(events, Event("progress", [phase |-> "done", n |-> messagesProcessed]))
  /\ progressLog' = Append(progressLog, messagesProcessed)
  /\ pc' = "done"
  /\ UNCHANGED <<lines, batchSize, fileOk, currentDate, chatName, isPrivateChat,
                 useTabSeparator, memberMap, messages, lineIdx, messagesProcessed,
                 batchIdx, wallClock>>
  /\ UNCHANGED <<cancelAt, migVars, sqlVars, viewVars>>

\* mutant of DoneData: system messages are not counted
DoneDataSendersOnly ==
  [messageCount |-> Len(SelectSeq(messages, LAMBDA m : m.senderPlatformId # "system")),
   memberCount |-> Len(memberMap)]

\* the data of the done event
DoneData == [messageCount |-> messagesProcessed, memberCount |-> Len(memberMap)]

\* yield done; the generator returns
YieldDone ==
  /\ pc = "done"
  /\ events' = Append(events, Event("done", DoneData))
  /\ pc' = "end"
  /\ UNCHANGED <<lines, batchSize, fileOk, currentDate, chatName, isPrivateChat,
                 useTabSeparator, memberMap, messages, lineIdx, messagesProcessed,
                 batchIdx, wallClock, progressLog>>
  /\ UNCHANGED <<cancelAt, migVars, sqlVars, viewVars>>

NextLine ==
  \/ YieldInitialProgress
  \/ ReadFile
  \/ ParseLine
  \/ YieldMeta
  \/ YieldMembers
  \/ YieldBatch
  \/ YieldDoneProgress
  \/ YieldDone

SpecLine == InitLine /\ [][NextLine]_vars

\* parseLINE on the dialogue files
InitDialogue ==
  /\ fileOk = TRUE
  /\ lines \in DialogueFiles
  /\ batchSize = MaxBatchSize
  /\ pc = "start"
  /\ currentDate = NoDate
  /\ chatName = "file"
  /\ isPrivateChat = FALSE
  /\ useTabSeparator = FALSE
  /\ memberMap = <<>>
  /\ messages = <<>>
  /\ lineIdx = 0
  /\ messagesProcessed = 0
  /\ batchIdx = 0
  /\ wallClock = NoDate
  /\ events = <<>>
  /\ progressLog = <<>>
  /\ cancelAt = <<>>
  /\ MigIdle
  /\ SqlIdle
  /\ ViewIdle

SpecDialogue == InitDialogue /\ [][NextLine]_vars

(***************************************************************************)
(* Claims about parseLINE (checked under SpecLine)                         *)
(***************************************************************************)
EventIdx(type) == {k \in 1..Len(events) : events[k].type = type}

RECURSIVE BatchesOf(_)
BatchesOf(evs) ==
  IF evs = <<>> THEN <<>>
  ELSE IF Head(evs).type = "messages" THEN <<Head(evs).data>> \o BatchesOf(Tail(evs))
  ELSE BatchesOf(Tail(evs))

\* the messages emitted so far, in emission order
EmittedMessages == FlattenSeq(BatchesOf(events))

\* C1: the event sequence of a run holds at most one meta, one members and
\* one done event; meta comes before members, members before every messages
\* batch, and done, once emitted, is the last event.  A run that has completed
\* holds exactly one of each, and all messages batches lie between members
\* and done.
C1_EventOrder ==
  /\ Cardinality(EventIdx("meta")) <= 1
  /\ Cardinality(EventIdx("members")) <= 1
  /\ Cardinality(EventIdx("done")) <= 1
  /\ \A b \in EventIdx("members") : \E a \in EventIdx("meta") : a < b
  /\ \A k \in EventIdx("messages") : \E b \in EventIdx("members") : b < k
  /\ \A d \in EventIdx("done") : d = Len(events)
  /\ pc = "end" =>
       /\ Cardinality(EventIdx("meta")) = 1
       /\ Cardinality(EventIdx("members")) = 1
       /\ EventIdx("done") = {Len(events)}
       /\ EmittedMessages = messages

\* a completed run with a header that emitted several batches
C1_Witness ==
  /\ pc = "end"
  /\ Cardinality(EventIdx("messages")) >= 2
  /\ HeaderRecognized(lines)

\* C2: when the first line is a recognized header the chat type of the meta
\* event is the one the header states, whatever the number of senders; without
\* a header it is private for at most two senders and group otherwise.
C2_HeaderDecidesType ==
  \A k \in EventIdx("meta") :
    events[k].data.type =
      IF HeaderRecognized(lines)
        THEN (IF LineOf(lines[1]).isGroup THEN "group" ELSE "private")
        ELSE ChatTypeOf(Len(memberMap))

\* C3: the parser emits finitely many events for every batchSize: a run emits
\* at most one messages batch per line of the file besides its five other
\* events (two progress, meta, members, done).
C3_FiniteEvents == Len(events) <= Len(lines) + 5

\* C4: every messages batch holds at most batchSize messages; the batches
\* emitted so far, concatenated, are a prefix of the parsed messages, and once
\* the batch loop is over they are exactly the parsed messages.
C4_BatchesPartitionMessages ==
  /\ \A k \in EventIdx("messages") : Len(events[k].data) <= batchSize
  /\ Len(EmittedMessages) <= Len(messages)
  /\ pc \in {"batches", "done", "end"} =>
       EmittedMessages = SubSeq(messages, 1, Len(EmittedMessages))
  /\ pc \in {"done", "end"} => EmittedMessages = messages

\* a completed run whose last batch is a partial one
C4_Witness ==
  /\ pc = "end"
  /\ batchSize = 2
  /\ Len(messages) = 3
  /\ Cardinality(EventIdx("messages")) = 2

\* C5: for a batch size of at least one, the parsed messages held and not yet
\* emitted in a messages batch never number more than batchSize.
C5_BufferBounded ==
  batchSize >= 1 => Len(messages) - Len(EmittedMessages) <= batchSize

\* C17: when the file cannot be read, the run ends with an `error` event as
\* its last event, that event is the only `error` event, and there is no
\* `done` event.
C17_UnreadableEndsWithError ==
  (~fileOk /\ pc \in {"thrown", "end"})
    => /\ events # <<>>
       /\ events[Len(events)].type = "error"
       /\ Cardinality(EventIdx("error")) = 1
       /\ EventIdx("done") = {}

\* C18: the messageCount of a `done` event is the number of messages in all
\* the `messages` events yielded, and its memberCount is the number of
\* records of the `members` event.
C18_DoneCountsMatch ==
  \A k \in EventIdx("done") :
    /\ events[k].data.messageCount = Len(EmittedMessages)
    /\ EventIdx("members") # {}
    /\ \A m \in EventIdx("members") : events[k].data.memberCount = Len(events[m].data)

\* a `done` event after two batches that hold a system message and messages
\* of a member
C18_Witness ==
  /\ EventIdx("done") # {}
  /\ Cardinality(EventIdx("messages")) >= 2
  /\ \E j \in 1..Len(EmittedMessages) : EmittedMessages[j].senderPlatformId = "system"
  /\ \E m \in EventIdx("members") : Len(events[m].data) >= 1

\* files of dated sender and system messages
CancelFiles ==
  {HeaderBlock(TRUE) \o b :
     b \in SeqsUpTo({"date1", "aliceHi", "sysJoined"}, MaxDialogueLines)}

\* parseLINE with a caller that may ask for cancellation while it runs
InitCancel ==
  /\ fileOk = TRUE
  /\ lines \in CancelFiles
  /\ batchSize \in 1..MaxBatchSize
  /\ pc = "start"
  /\ currentDate = NoDate
  /\ chatName = "file"
  /\ isPrivateChat = FALSE
  /\ useTabSeparator = FALSE
  /\ memberMap = <<>>
  /\ messages = <<>>
  /\ lineIdx = 0
  /\ messagesProcessed = 0
  /\ batchIdx = 0
  /\ wallClock = NoDate
  /\ events = <<>>
  /\ progressLog = <<>>
  /\ cancelAt = <<>>
  /\ MigIdle
  /\ SqlIdle
  /\ ViewIdle

\* the caller asks for cancellation; parseLINE takes no cancellation option
\* and reads no state of the caller
RequestCancel ==
  /\ pc \notin {"off", "end", "thrown"}
  /\ cancelAt = <<>>
  /\ cancelAt' = <<Len(events)>>
  /\ UNCHANGED <<lines, batchSize, fileOk, pc, currentDate, chatName, isPrivateChat,
                 useTabSeparator, memberMap, messages, lineIdx, messagesProcessed,
                 batchIdx, wallClock, events, progressLog>>
  /\ UNCHANGED <<migVars, sqlVars, viewVars>>

NextCancel ==
  \/ NextLine
  \/ RequestCancel

SpecCancel == InitCancel /\ [][NextCancel]_vars

\* C15: once cancellation has been requested, the batch that was next when it
\* was requested may still come, and no `messages` event follows that one.
C15_CancelStopsBatches ==
  cancelAt # <<>>
    => Cardinality({k \in (cancelAt[1] + 1)..Len(events) : events[k].type = "messages"}) <= 1

\* batchSize when the caller gives none
DefaultBatchSize == 5000

\* long files: one date line, ProgressEvery - 1 sender messages, then a short
\* tail of sender and system messages
ProgressFiles ==
  {HeaderBlock(TRUE) \o <<"date1">> \o [k \in 1..(ProgressEvery - 1) |-> "aliceHi"] \o t :
     t \in SeqsUpTo({"aliceHi", "sysJoined"}, MaxTailLines)}

\* parseLINE on the long files
InitProgress ==
  /\ fileOk = TRUE
  /\ lines \in ProgressFiles
  /\ batchSize = DefaultBatchSize
  /\ pc = "start"
  /\ currentDate = NoDate
  /\ chatName = "file"
  /\ isPrivateChat = FALSE
  /\ useTabSeparator = FALSE
  /\ memberMap = <<>>
  /\ messages = <<>>
  /\ lineIdx = 0
  /\ messagesProcessed = 0
  /\ batchIdx = 0
  /\ wallClock = NoDate
  /\ events = <<>>
  /\ progressLog = <<>>
  /\ cancelAt = <<>>
  /\ MigIdle
  /\ SqlIdle
  /\ ViewIdle

SpecProgress == InitProgress /\ [][NextLine]_vars

\* messagesProcessed at the last call of onProgress, 0 before the first
LastReport == IF progressLog = <<>> THEN 0 ELSE progressLog[Len(progressLog)]

\* C16: at every point of the parse at most ProgressEvery messages, sender and
\* system messages together, have been processed since the last call of the
\* progress callback (since the start, before the first call).
C16_ProgressEveryThousand == messagesProcessed - LastReport <= ProgressEvery

(***************************************************************************)
(* Claims about the line loop (checked under SpecDialogue)                 *)
(***************************************************************************)
\* lines[i] is a sender message line for the separator in use
IsMsgLine(i) ==
  IF useTabSeparator THEN MatchesPrivatePattern(LineOf(lines[i]))
                     ELSE MatchesGroupPattern(LineOf(lines[i]))

\* after lines[1..i], a message that opened with a double quote is waiting for
\* the line that ends with the closing double quote
RECURSIVE QuoteOpenAfter(_)
QuoteOpenAfter(i) ==
  IF i = 0 THEN FALSE
  ELSE LET l == LineOf(lines[i])
       IN IF QuoteOpenAfter(i - 1) THEN ~l.eq
          ELSE IsMsgLine(i) /\ l.sq /\ ~l.eq

\* C12: while a message that opened with a double quote waits for its closing
\* line, the line read is appended to it, starts no message and leaves the
\* current date; the line read right after the closing line is not appended
\* to that message.
C12_QuotedRunsToTerminator ==
  [][(pc = "loop" /\ lineIdx' = lineIdx + 1)
       => /\ QuoteOpenAfter(lineIdx)
               => /\ Len(messages') = Len(messages)
                  /\ currentDate' = currentDate
                  /\ Len(messages'[Len(messages)].content)
                       = Len(messages[Len(messages)].content) + 1
          /\ (lineIdx >= 2 /\ QuoteOpenAfter(lineIdx - 1) /\ ~QuoteOpenAfter(lineIdx))
               => messages'[Len(messages)] = messages[Len(messages)]]_vars

\* the lines read so far that produced a message, sender or system
MessageLines == {i \in 1..lineIdx : IsMsgLine(i) \/ MatchesSystemPattern(LineOf(lines[i]))}

\* the line that produced messages[k]
LineOfMessage(k) ==
  CHOOSE i \in MessageLines : Cardinality({j \in MessageLines : j <= i}) = k

\* the day of the last date line before lines[i], NoDate when there is none
LastDateBefore(i) ==
  LET ds == {j \in 1..(i - 1) : LineOf(lines[j]).kind = "date"}
  IN IF ds = {} THEN NoDate
     ELSE LineOf(lines[CHOOSE j \in ds : \A j2 \in ds : j2 <= j]).day

\* C13: at every point of the parse, each message parsed from a line that a
\* date line precedes carries the day of the last date line before its own
\* line combined with the time stamp of its own line, whatever date lines
\* were read after it.
C13_TimestampFromRollingDate ==
  pc \notin {"start", "read", "thrown"}
    => /\ Cardinality(MessageLines) = Len(messages)
       /\ \A k \in 1..Len(messages) :
            LET i == LineOfMessage(k)
                d == LastDateBefore(i)
            IN d # NoDate
                 => messages[k].timestamp = Timestamp(d, LineOf(lines[i]).time)

\* a message dated by the first date line, a later date line read after it
C13_Witness ==
  /\ Len(messages) >= 1
  /\ LastDateBefore(LineOfMessage(1)) = 1
  /\ currentDate = 2
  /\ messages[1].timestamp = Timestamp(1, LineOf(lines[LineOfMessage(1)]).time)

\* C14: a message parsed from a line in system form has kind system and sender
\* system, and a message parsed from a sender line whose content carries a
\* join / add / leave / announcement / unsend phrase has kind system.
C14_NoticesAreSystem ==
  \A k \in 1..Len(messages) :
    LET i == LineOfMessage(k)
        l == LineOf(lines[i])
    IN /\ (~IsMsgLine(i) /\ MatchesSystemPattern(l))
            => /\ messages[k].type = "system"
               /\ messages[k].senderPlatformId = "system"
       /\ (IsMsgLine(i) /\ HasSystemPhrase(l.body)) => messages[k].type = "system"

(***************************************************************************)
(* The store and the migrations                                            *)
(*   tables       the tables that exist                                    *)
(*   metaCols     columns of meta added after creation                     *)
(*   memberCols, messageCols  likewise for member and message              *)
(*   indexes      the indexes the migrations know                          *)
(*   metaRows     schema_version of each row of meta, in rowid order       *)
(*                (Null: SQL NULL, or the column does not exist)           *)
(*   cells        for each column a migration may add, what the rows that  *)
(*                were stored before the call hold in it                   *)
(***************************************************************************)
Null == -1
CURRENT_SCHEMA_VERSION == 2

\* the declared migrations, in declaration order (description and userMessage
\* in English; up names the operator that models the function)
MigrationList ==
  <<[version |-> 1,
     description |-> "add owner_id to meta",
     userMessage |-> "Owner: set your own identity in the member list",
     up |-> "Migration1Up"],
    [version |-> 2,
     description |-> "add roles, reply_to_message_id, platform_message_id",
     userMessage |-> "member roles, reply relations and reply previews",
     up |-> "Migration2Up"]>>

\* the versions of the declared migrations, in declaration order
migrations == [k \in 1..Len(MigrationList) |-> MigrationList[k].version]

\* the columns, other than schema_version, that a migration adds
DataCols == {"owner_id", "roles", "reply_to_message_id", "platform_message_id"}

\* a column value: of a column that does not exist, written by the application,
\* SQL NULL, the text '[]'
Absent == "absent"
Stored == "stored"
NullText == "NULL"
EmptyList == "[]"

Store(tables, metaCols, memberCols, messageCols, indexes, metaRows) ==
  [tables |-> tables, metaCols |-> metaCols, memberCols |-> memberCols,
   messageCols |-> messageCols, indexes |-> indexes, metaRows |-> metaRows,
   cells |-> [c \in DataCols |->
                IF c \in metaCols \cup memberCols \cup messageCols
                  THEN Stored ELSE Absent]]

\* the stores a call may find
Stores ==
  { Store(t, mc, mbc, msc, ix, rows) :
      t \in SUBSET {"meta", "member", "message"},
      mc \in SUBSET {"owner_id", "schema_version"},
      mbc \in SUBSET {"roles"},
      msc \in SUBSET {"reply_to_message_id", "platform_message_id"},
      ix \in SUBSET {"idx_message_platform_id"},
      rows \in SeqsUpTo({Null} \cup 0..MaxStoredVersion, MaxMetaRows) }

WellFormed(d) ==
  /\ "meta" \notin d.tables => d.metaCols = {} /\ d.metaRows = <<>>
  /\ "member" \notin d.tables => d.memberCols = {}
  /\ "message" \notin d.tables => d.messageCols = {} /\ d.indexes = {}
  /\ d.indexes # {} => "platform_message_id" \in d.messageCols
  /\ "schema_version" \notin d.metaCols => \A k \in 1..Len(d.metaRows) : d.metaRows[k] = Null

\* PRAGMA table_info(t): the column names; empty for a table that does not exist
TableInfo(d, t) ==
  IF t \notin d.tables THEN {}
  ELSE CASE t = "meta" -> d.metaCols
         [] t = "member" -> d.memberCols
         [] t = "message" -> d.messageCols

getSchemaVersion(d) ==
  IF "schema_version" \notin TableInfo(d, "meta") THEN 0
  ELSE IF d.metaRows = <<>> THEN 0
  ELSE IF d.metaRows[1] = Null THEN 0
  ELSE d.metaRows[1]

needsMigration(d) == getSchemaVersion(d) < CURRENT_SCHEMA_VERSION

\* the result of statements that may throw
Ok(d) == [ok |-> TRUE, db |-> d]
Threw(d) == [ok |-> FALSE, db |-> d]

\* mutant of AlterAddColumn: the table is rebuilt with the new column and the
\* rows are not copied
AlterAddColumnRebuild(d, t, col, dflt) ==
  IF t \notin d.tables THEN Threw(d)
  ELSE LET lost == [c \in DataCols |-> IF d.cells[c] = Absent THEN Absent ELSE NullText]
       IN CASE t = "meta" ->
                 Ok([d EXCEPT !.metaCols = @ \cup {col},
                              !.metaRows = IF col = "schema_version"
                                             THEN [k \in 1..Len(@) |-> dflt] ELSE @,
                              !.cells = IF col = "schema_version" THEN lost
                                        ELSE [lost EXCEPT ![col] = dflt]])
            [] t = "member" -> Ok([d EXCEPT !.memberCols = @ \cup {col},
                                            !.cells = [lost EXCEPT ![col] = dflt]])
            [] t = "message" -> Ok([d EXCEPT !.messageCols = @ \cup {col},
                                             !.cells = [lost EXCEPT ![col] = dflt]])

\* ALTER TABLE t ADD COLUMN col [DEFAULT dflt]: the rows there are read dflt in
\* the new column (schema_version: as a number in metaRows)
AlterAddColumn(d, t, col, dflt) ==
  IF t \notin d.tables THEN Threw(d)
  ELSE CASE t = "meta" ->
              Ok([d EXCEPT !.metaCols = @ \cup {col},
                           !.metaRows = IF col = "schema_version"
                                          THEN [k \in 1..Len(@) |-> dflt] ELSE @,
                           !.cells = IF col = "schema_version" THEN @
                                     ELSE [@ EXCEPT ![col] = dflt]])
         [] t = "member" -> Ok([d EXCEPT !.memberCols = @ \cup {col},
                                         !.cells = [@ EXCEPT ![col] = dflt]])
         [] t = "message" -> Ok([d EXCEPT !.messageCols = @ \cup {col},
                                          !.cells = [@ EXCEPT ![col] = dflt]])

\* migration 1: owner_id on meta
Migration1Up(d) ==
  IF "owner_id" \notin TableInfo(d, "meta")
    THEN AlterAddColumn(d, "meta", "owner_id", NullText)
    ELSE Ok(d)

\* CREATE INDEX IF NOT EXISTS ... inside try/catch
CreateIndexIfNotExists(d) ==
  IF "message" \in d.tables /\ "platform_message_id" \in d.messageCols
    THEN [d EXCEPT !.indexes = @ \cup {"idx_message_platform_id"}]
    ELSE d

\* migration 2: roles on member, reply_to_message_id and platform_message_id on
\* message (both decided on the columns read before either is added), the index
Migration2Up(d) ==
  LET r1 == IF "roles" \notin TableInfo(d, "member")
              THEN AlterAddColumn(d, "member", "roles", EmptyList) ELSE Ok(d)
      info == TableInfo(r1.db, "message")
      r2 == IF "reply_to_message_id" \notin info
              THEN AlterAddColumn(r1.db, "message", "reply_to_message_id", NullText)
              ELSE Ok(r1.db)
      r3 == IF "platform_message_id" \notin info
              THEN AlterAddColumn(r2.db, "message", "platform_message_id", NullText)
              ELSE Ok(r2.db)
  IN IF ~r1.ok THEN r1
     ELSE IF ~r2.ok THEN r2
     ELSE IF ~r3.ok THEN r3
     ELSE Ok(CreateIndexIfNotExists(r3.db))

\* migration.up of the migration with version v
Up(v, d) == IF v = 1 THEN Migration1Up(d) ELSE Migration2Up(d)

\* UPDATE meta SET schema_version = v
UpdateVersion(d, v) ==
  IF "meta" \notin d.tables THEN Threw(d)
  ELSE Ok([d EXCEPT !.metaRows = [k \in 1..Len(@) |-> v]])

setSchemaVersion(d, v) ==
  LET r == IF "schema_version" \notin TableInfo(d, "meta")
             THEN AlterAddColumn(d, "meta", "schema_version", 0) ELSE Ok(d)
  IN IF ~r.ok THEN r ELSE UpdateVersion(r.db, v)

\* migrations.filter((m) => m.version > currentVersion)
PendingMigrations(cur) == SelectSeq(migrations, LAMBDA v : v > cur)

\* mutant of getPendingMigrationInfos: fromVersion is included
getPendingMigrationInfosInclusive(fromVersion) ==
  LET sel == SelectSeq(MigrationList, LAMBDA m : m.version >= fromVersion)
  IN [k \in 1..Len(sel) |-> [version |-> sel[k].version,
                             description |-> sel[k].description,
                             userMessage |-> sel[k].userMessage]]

\* migrations.filter((m) => m.version > fromVersion).map(...)
getPendingMigrationInfos(fromVersion) ==
  LET sel == SelectSeq(MigrationList, LAMBDA m : m.version > fromVersion)
  IN [k \in 1..Len(sel) |-> [version |-> sel[k].version,
                             description |-> sel[k].description,
                             userMessage |-> sel[k].userMessage]]

\* mutant of Rollback: the steps run outside a transaction
RollbackNothing(atBegin, now) == now

\* db.transaction: what the store is after the function threw
Rollback(atBegin, now) == atBegin

Call(p, post, outcome, r, app, rb) ==
  [pre |-> p, post |-> post, outcome |-> outcome, ret |-> r, applied |-> app,
   readback |-> rb]

LineIdle ==
  /\ lines = <<>> /\ batchSize = 0 /\ fileOk = FALSE /\ pc = "off"
  /\ currentDate = NoDate /\ chatName = "file" /\ isPrivateChat = FALSE
  /\ useTabSeparator = FALSE /\ memberMap = <<>> /\ messages = <<>>
  /\ lineIdx = 0 /\ messagesProcessed = 0 /\ batchIdx = 0 /\ events = <<>>
  /\ progressLog = <<>> /\ wallClock = NoDate /\ cancelAt = <<>>

InitMig ==
  /\ db \in {d \in Stores : WellFormed(d)}
  /\ mpc = "idle"
  /\ snap = db
  /\ pre = db
  /\ pending = <<>>
  /\ applied = <<>>
  /\ readback = <<>>
  /\ ret = "none"
  /\ calls = <<>>
  /\ LineIdle
  /\ SqlIdle
  /\ ViewIdle

\* migrateDatabase up to the start of the transaction
MigrateStart ==
  /\ mpc = "idle"
  /\ Len(calls) < MaxCalls
  /\ LET cur == getSchemaVersion(db)
         pend == PendingMigrations(cur)
     IN IF cur >= CURRENT_SCHEMA_VERSION \/ pend = <<>>
          THEN /\ calls' = Append(calls, Call(db, db, "returned", "false", <<>>, <<>>))
               /\ ret' = "false"
               /\ UNCHANGED <<mpc, snap, pending>>
          ELSE /\ snap' = db
               /\ pending' = pend
               /\ mpc' = "tx"
               /\ ret' = "none"
               /\ UNCHANGED calls
  /\ pre' = db
  /\ applied' = <<>>
  /\ readback' = <<>>
  /\ UNCHANGED db
  /\ UNCHANGED <<lineVars, sqlVars, viewVars>>

\* one iteration of the loop inside the transaction: migration.up, then
\* setSchemaVersion; a statement that writes may also fail (ioError)
MigrateStep ==
  /\ mpc = "tx"
  /\ pending # <<>>
  /\ \E ioError \in BOOLEAN :
       LET v == Head(pending)
           r1 == Up(v, db)
           r2 == IF r1.ok THEN setSchemaVersion(r1.db, v) ELSE r1
       IN IF ioError \/ ~r2.ok
            THEN /\ db' = Rollback(snap, r2.db)
                 /\ mpc' = "idle"
                 /\ ret' = "none"
                 /\ pending' = <<>>
                 /\ calls' = Append(calls,
                      Call(pre, Rollback(snap, r2.db), "thrown", "none", applied, readback))
                 /\ UNCHANGED <<applied, readback>>
            ELSE /\ db' = r2.db
                 /\ applied' = Append(applied, v)
                 /\ readback' = Append(readback, getSchemaVersion(r2.db))
                 /\ pending' = Tail(pending)
                 /\ UNCHANGED <<mpc, ret, calls>>
  /\ UNCHANGED <<snap, pre>>
  /\ UNCHANGED <<lineVars, sqlVars, viewVars>>

\* the transaction commits and migrateDatabase returns true
MigrateCommit ==
  /\ mpc = "tx"
  /\ pending = <<>>
  /\ mpc' = "idle"
  /\ ret' = "true"
  /\ calls' = Append(calls, Call(pre, db, "returned", "true", applied, readback))
  /\ UNCHANGED <<db, snap, pending, applied, readback, pre>>
  /\ UNCHANGED <<lineVars, sqlVars, viewVars>>

NextMig ==
  \/ MigrateStart
  \/ MigrateStep
  \/ MigrateCommit

SpecMig == InitMig /\ [][NextMig]_vars

(***************************************************************************)
(* Claims about the migrations (checked under SpecMig)                     *)
(***************************************************************************)
Returned(c) == c.outcome = "returned"

\* C6: a call that starts on a store below the highest declared version and
\* returns leaves a store whose schema_version reads back as
\* CURRENT_SCHEMA_VERSION and for which needsMigration is false.
C6_MigratedToCurrent ==
  \A k \in 1..Len(calls) :
    (Returned(calls[k]) /\ getSchemaVersion(calls[k].pre) < CURRENT_SCHEMA_VERSION)
      => /\ getSchemaVersion(calls[k].post) = CURRENT_SCHEMA_VERSION
         /\ ~needsMigration(calls[k].post)

\* C7: when a first call has returned, a second call in succession applies no
\* migration, returns false and leaves the store as the first call left it.
C7_SecondRunIsNoOp ==
  (Len(calls) >= 2 /\ Returned(calls[1]))
    => /\ Returned(calls[2])
       /\ calls[2].ret = "false"
       /\ calls[2].applied = <<>>
       /\ calls[2].post = calls[1].post

\* C8: a call applies, in increasing order, the declared migrations above the
\* version it found (all of them when it returns, the first ones when it
\* throws); right after each one schema_version reads back as that
\* migration's version; and no call leaves a lower schema_version than it found.
C8_AppliesPendingInOrder ==
  \A k \in 1..Len(calls) :
    LET c == calls[k]
        pend == PendingMigrations(getSchemaVersion(c.pre))
    IN /\ Len(c.applied) <= Len(pend)
       /\ c.applied = SubSeq(pend, 1, Len(c.applied))
       /\ Returned(c) /\ getSchemaVersion(c.pre) < CURRENT_SCHEMA_VERSION
            => c.applied = pend
       /\ c.readback = c.applied
       /\ getSchemaVersion(c.post) >= getSchemaVersion(c.pre)

\* C9: a call in which a migration step throws leaves the store, schema and
\* schema_version, exactly as it found it.
C9_ThrowRollsBack ==
  \A k \in 1..Len(calls) :
    calls[k].outcome = "thrown" => calls[k].post = calls[k].pre

\* a call that threw after an earlier migration of the same run had completed
\* and advanced the version
C9_Witness ==
  \E k \in 1..Len(calls) :
    /\ calls[k].outcome = "thrown"
    /\ Len(calls[k].applied) >= 1
    /\ calls[k].readback[1] > getSchemaVersion(calls[k].pre)

\* C10: a call on a store whose schema_version is above the highest declared
\* version fails; it does not return as if the store were up to date.
C10_FutureVersionIsFatal ==
  \A k \in 1..Len(calls) :
    getSchemaVersion(calls[k].pre) > CURRENT_SCHEMA_VERSION
      => calls[k].outcome = "thrown"

(***************************************************************************)
(* The SQL Lab: the editor's executeSQL and query.sql of the core          *)
(***************************************************************************)
\* the statements of the editor
Statements == {"blank", "selectAll", "selectLimit10", "deleteAll", "selectThenDelete"}

\* !sql.value.trim()
IsBlank(s) == s = "blank"

\* a single SELECT statement
IsSingleSelect(s) == s \in {"selectAll", "selectLimit10"}

\* the rows a SELECT statement matches in a message table of n rows
Matching(s, n) == IF s = "selectLimit10" /\ n > 10 THEN 10 ELSE n

\* the cap on the rows of a result
RowCap == 1000

\* mutant of CoreExecuteSQL: the statement is run as it is
CoreExecuteSQLUnguarded(store, s) ==
  IF s \in {"deleteAll", "selectThenDelete"}
    THEN [ok |-> TRUE, store |-> 0, error |-> "null",
          result |-> <<[rowCount |-> 0, limited |-> FALSE]>>]
    ELSE LET m == Matching(s, store)
         IN [ok |-> TRUE, store |-> store, error |-> "null",
             result |-> <<[rowCount |-> IF m > RowCap THEN RowCap ELSE m,
                           limited |-> m > RowCap]>>]

\* query.sql of the core: rejects what is not a single SELECT, caps the rows
CoreExecuteSQL(store, s) ==
  IF ~IsSingleSelect(s)
    THEN [ok |-> FALSE, store |-> store, error |-> "rejected", result |-> <<>>]
    ELSE LET m == Matching(s, store)
         IN [ok |-> TRUE, store |-> store, error |-> "null",
             result |-> <<[rowCount |-> IF m > RowCap THEN RowCap ELSE m,
                           limited |-> m > RowCap]>>]

InitSql ==
  /\ sql = "selectLimit10"
  /\ isExecuting = FALSE
  /\ error = "null"
  /\ result = <<>>
  /\ inflight = {}
  /\ started = 0
  /\ sqlStore \in {0, RowCap - 1, RowCap, RowCap + 1}
  /\ sqlLog = <<>>
  /\ LineIdle
  /\ MigIdle
  /\ ViewIdle

\* the user edits the statement
EditSql ==
  /\ \E s \in Statements \ {sql} : sql' = s
  /\ UNCHANGED <<isExecuting, error, result, inflight, started, sqlStore, sqlLog>>
  /\ UNCHANGED <<lineVars, migVars, viewVars>>

\* executeSQL up to the await
ExecuteSQLStart ==
  /\ IF IsBlank(sql)
       THEN /\ error' = "empty"
            /\ UNCHANGED <<isExecuting, result, inflight, started>>
       ELSE /\ started < MaxSqlCalls
            /\ isExecuting' = TRUE
            /\ error' = "null"
            /\ result' = <<>>
            /\ inflight' = inflight \cup {[id |-> started + 1, stmt |-> sql]}
            /\ started' = started + 1
  /\ UNCHANGED <<sql, sqlStore, sqlLog>>
  /\ UNCHANGED <<lineVars, migVars, viewVars>>

\* a call of window.chatApi.executeSQL settles and executeSQL resumes
ExecuteSQLReturn ==
  /\ \E r \in inflight :
       LET out == CoreExecuteSQL(sqlStore, r.stmt)
       IN /\ sqlStore' = out.store
          /\ IF out.ok THEN result' = out.result /\ UNCHANGED error
                       ELSE error' = out.error /\ UNCHANGED result
          /\ isExecuting' = FALSE
          /\ inflight' = inflight \ {r}
          /\ sqlLog' = Append(sqlLog, [id |-> r.id, stmt |-> r.stmt, before |-> sqlStore,
                                       after |-> out.store, ok |-> out.ok,
                                       result |-> out.result, error |-> out.error])
  /\ UNCHANGED <<sql, started>>
  /\ UNCHANGED <<lineVars, migVars, viewVars>>

NextSql ==
  \/ EditSql
  \/ ExecuteSQLStart
  \/ ExecuteSQLReturn

SpecSql == InitSql /\ [][NextSql]_vars

(***************************************************************************)
(* parseLINE called twice on the same file                                 *)
(***************************************************************************)
ReplayAlphabet == {"date1", "aliceHi", "sysJoined", "bobPhoto"}
ReplayFiles == {HeaderBlock(TRUE) \o b : b \in SeqsUpTo(ReplayAlphabet, MaxReplayLines)}

InitReplay ==
  /\ fileOk = TRUE
  /\ lines \in ReplayFiles
  /\ batchSize = MaxBatchSize
  /\ pc = "start"
  /\ currentDate = NoDate
  /\ chatName = "file"
  /\ isPrivateChat = FALSE
  /\ useTabSeparator = FALSE
  /\ memberMap = <<>>
  /\ messages = <<>>
  /\ lineIdx = 0
  /\ messagesProcessed = 0
  /\ batchIdx = 0
  /\ wallClock = NoDate
  /\ events = <<>>
  /\ progressLog = <<>>
  /\ cancelAt = <<>>
  /\ MigIdle
  /\ SqlIdle
  /\ ViewIdle

\* the parse has ended; parseLINE is called again with the same options, at
\* the same or a later wall-clock time
ParseAgain ==
  /\ pc = "end"
  /\ firstRun = <<>>
  /\ firstRun' = <<events>>
  /\ pc' = "start"
  /\ currentDate' = NoDate
  /\ chatName' = "file"
  /\ isPrivateChat' = FALSE
  /\ useTabSeparator' = FALSE
  /\ memberMap' = <<>>
  /\ messages' = <<>>
  /\ lineIdx' = 0
  /\ messagesProcessed' = 0
  /\ batchIdx' = 0
  /\ events' = <<>>
  /\ progressLog' = <<>>
  /\ UNCHANGED <<lines, batchSize, fileOk, wallClock, cancelAt>>
  /\ UNCHANGED <<migVars, sqlVars, monoVars, ownerVars, clockVars, typeVars, drawerVars>>

NextReplay ==
  \/ NextLine
  \/ ParseAgain

SpecReplay == InitReplay /\ [][NextReplay]_vars

(***************************************************************************)
(* The time of a message line, in the sender branch and the system branch  *)
(***************************************************************************)
\* the greatest number that \d{1,2} and \d{2} accept
TwoDigitMax == 99

TimePrefixes == {"", "zh_am", "zh_pm", "ja_am", "ja_pm"}
TimeSuffixes == {"", "am", "pm", "AM", "Pm"}
Minutes == {0, 30, 59, 60, TwoDigitMax}

\* the time strings that the message patterns capture
TimeStrings ==
  {Time(p, h, m, x) : p \in TimePrefixes, h \in 0..TwoDigitMax, m \in Minutes,
                      x \in TimeSuffixes}

\* the hour of a time stamp in the system branch
SystemHour24(t) ==
  LET h1 == IF ToLowerCase(t.suffix) = "pm" /\ t.h < 12 THEN t.h + 12 ELSE t.h
      h2 == IF ToLowerCase(t.suffix) = "am" /\ h1 = 12 THEN 0 ELSE h1
      h3 == IF t.prefix \in {"zh_pm", "ja_pm"} /\ h2 < 12 THEN h2 + 12 ELSE h2
      h4 == IF t.prefix \in {"zh_am", "ja_am"} /\ h3 = 12 THEN 0 ELSE h3
  IN h4

\* setHours(hours, minutes, 0, 0) on the date of `day`, in seconds, system branch
SystemTimestamp(day, t) == ((day * 24 + SystemHour24(t)) * 60 + t.m) * 60

exceptClock == <<lineVars, migVars, sqlVars, monoVars, ownerVars, replayVars, typeVars,
                 drawerVars>>

\* a message pattern or the system pattern has captured a time string
InitClock ==
  /\ timeStr \in {<<t>> : t \in TimeStrings}
  /\ stamp = <<>>
  /\ LineIdle /\ MigIdle /\ SqlIdle
  /\ MonoIdle /\ OwnerIdle /\ ReplayIdle /\ TypeIdle /\ DrawerIdle

\* the sender branch computes hours, minutes and the timestamp under a date line
SenderTime ==
  /\ timeStr # <<>>
  /\ \E day \in Days :
       stamp' = <<[branch |-> "sender", of |-> timeStr[1], day |-> day,
                   hours |-> Hour24(timeStr[1]), minutes |-> timeStr[1].m,
                   timestamp |-> Timestamp(day, timeStr[1])]>>
  /\ UNCHANGED timeStr
  /\ UNCHANGED exceptClock

\* the system branch does the same
SystemTime ==
  /\ timeStr # <<>>
  /\ \E day \in Days :
       stamp' = <<[branch |-> "system", of |-> timeStr[1], day |-> day,
                   hours |-> SystemHour24(timeStr[1]), minutes |-> timeStr[1].m,
                   timestamp |-> SystemTimestamp(day, timeStr[1])]>>
  /\ UNCHANGED timeStr
  /\ UNCHANGED exceptClock

NextClock ==
  \/ SenderTime
  \/ SystemTime

SpecClock == InitClock /\ [][NextClock]_vars

(***************************************************************************)
(* detectMessageType on content strings                                    *)
(***************************************************************************)
ContentTokens ==
  {"[Photo]", "Audio", "[Notes]", "[null]", "maps.google.com", " joined the group",
   "Message unsent.", "Auto-reply", "https://", "hi"}

Contents == SeqsUpTo(ContentTokens, MaxContentTokens)

exceptType == <<lineVars, migVars, sqlVars, monoVars, ownerVars, replayVars, clockVars,
                drawerVars>>

\* a message pattern has captured a content
InitType ==
  /\ contentIn \in {<<c>> : c \in Contents}
  /\ detected = <<>>
  /\ LineIdle /\ MigIdle /\ SqlIdle
  /\ MonoIdle /\ OwnerIdle /\ ReplayIdle /\ ClockIdle /\ DrawerIdle

\* detectMessageType(content)
DetectType ==
  /\ contentIn # <<>>
  /\ detected' = <<[of |-> contentIn[1], type |-> detectTokens(contentIn[1])]>>
  /\ UNCHANGED contentIn
  /\ UNCHANGED exceptType

NextType ==
  \/ DetectType

SpecType == InitType /\ [][NextType]_vars

(***************************************************************************)
(* The chat record drawer                                                  *)
(***************************************************************************)
MessageIds == 1..MaxMessageId

\* the session lists of the back end: ordered by firstMessageId, one id each
SessionLists ==
  {[k \in 1..Len(f) |-> [id |-> 10 * k, firstMessageId |-> f[k]]] :
     f \in {g \in SeqsUpTo(MessageIds, MaxSessions) :
              \A k \in 1..(Len(g) - 1) : g[k] < g[k + 1]}}

Queries == {"empty", "filter", "scroll"}
MessageCounts == {0, 5}

exceptDrawer == <<lineVars, migVars, sqlVars, monoVars, ownerVars, replayVars, clockVars,
                  typeVars>>

\* the drawer is mounted and closed
InitDrawer ==
  /\ showChatRecordDrawer = FALSE
  /\ currentSessionId \in {Undefined, 1}
  /\ sessions \in SessionLists
  /\ localQuery = "empty"
  /\ messageCount = 0
  /\ activeSessionId = Undefined
  /\ sessionsCache = <<>>
  /\ watchers = <<>>
  /\ visibleLog = <<>>
  /\ LineIdle /\ MigIdle /\ SqlIdle
  /\ MonoIdle /\ OwnerIdle /\ ReplayIdle /\ ClockIdle /\ TypeIdle

handleApplyFilter ==
  /\ showChatRecordDrawer
  /\ localQuery' = "filter"
  /\ UNCHANGED <<showChatRecordDrawer, currentSessionId, sessions, messageCount,
                 activeSessionId, sessionsCache, watchers, visibleLog>>
  /\ UNCHANGED exceptDrawer

handleResetFilter ==
  /\ showChatRecordDrawer
  /\ localQuery' = "empty"
  /\ UNCHANGED <<showChatRecordDrawer, currentSessionId, sessions, messageCount,
                 activeSessionId, sessionsCache, watchers, visibleLog>>
  /\ UNCHANGED exceptDrawer

handleCountChange ==
  /\ showChatRecordDrawer
  /\ \E count \in MessageCounts : messageCount' = count
  /\ UNCHANGED <<showChatRecordDrawer, currentSessionId, sessions, localQuery,
                 activeSessionId, sessionsCache, watchers, visibleLog>>
  /\ UNCHANGED exceptDrawer

\* mutant of TargetSession: a session counts only when it starts before the message
TargetSessionStrict(cache, messageId, k, target) ==
  LET RECURSIVE Scan(_, _)
      Scan(i, t) ==
        IF i > Len(cache) THEN t
        ELSE IF cache[i].firstMessageId < messageId THEN Scan(i + 1, <<cache[i]>>)
        ELSE t
  IN Scan(k, target)

\* the for loop of handleVisibleMessageChange from position k on: <<>> is undefined
TargetSession(cache, messageId, k, target) ==
  LET RECURSIVE Scan(_, _)
      Scan(i, t) ==
        IF i > Len(cache) THEN t
        ELSE IF cache[i].firstMessageId <= messageId THEN Scan(i + 1, <<cache[i]>>)
        ELSE t
  IN Scan(k, target)

handleVisibleMessageChange ==
  /\ showChatRecordDrawer
  /\ \E messageId \in MessageIds :
       LET targetSession == TargetSession(sessionsCache, messageId, 1, <<>>)
           after == IF sessionsCache = <<>> THEN activeSessionId
                    ELSE IF targetSession # <<>> /\ targetSession[1].id # activeSessionId
                      THEN targetSession[1].id
                    ELSE activeSessionId
       IN /\ activeSessionId' = after
          /\ visibleLog' = <<[messageId |-> messageId, cache |-> sessionsCache,
                              before |-> activeSessionId, after |-> after]>>
  /\ UNCHANGED <<showChatRecordDrawer, currentSessionId, sessions, localQuery,
                 messageCount, sessionsCache, watchers>>
  /\ UNCHANGED exceptDrawer

\* a session of the time line is selected
handleSessionSelect ==
  /\ showChatRecordDrawer
  /\ \E k \in 1..Len(sessions) : activeSessionId' = sessions[k].id
  /\ localQuery' = "scroll"
  /\ UNCHANGED <<showChatRecordDrawer, currentSessionId, sessions, messageCount,
                 sessionsCache, watchers, visibleLog>>
  /\ UNCHANGED exceptDrawer

handleJumpToMessage ==
  /\ showChatRecordDrawer
  /\ localQuery' = "scroll"
  /\ UNCHANGED <<showChatRecordDrawer, currentSessionId, sessions, messageCount,
                 activeSessionId, sessionsCache, watchers, visibleLog>>
  /\ UNCHANGED exceptDrawer

\* the last session of a cache becomes the active one when there is one
ActivateLast(cache, active) ==
  IF Len(cache) > 0 THEN cache[Len(cache)].id ELSE active

\* the drawer is opened: the watch callback copies the query and calls
\* loadSessionsCache, which returns at once without a current session and
\* otherwise waits for getSessions
OpenDrawer ==
  /\ ~showChatRecordDrawer
  /\ Len(watchers) < MaxWatchers
  /\ showChatRecordDrawer' = TRUE
  /\ \E query \in Queries : localQuery' = query
  /\ IF currentSessionId = Undefined
       THEN /\ activeSessionId' = ActivateLast(sessionsCache, activeSessionId)
            /\ watchers' = Append(watchers, "nextTick")
       ELSE /\ watchers' = Append(watchers, "getSessions")
            /\ UNCHANGED activeSessionId
  /\ UNCHANGED <<currentSessionId, sessions, messageCount, sessionsCache, visibleLog>>
  /\ UNCHANGED exceptDrawer

\* getSessions has settled with `cache`: the callback stores it and activates
\* its last session
Settled(cache) ==
  /\ sessionsCache' = cache
  /\ activeSessionId' = ActivateLast(cache, activeSessionId)

\* getSessions of one suspended callback resolves, or rejects
GetSessionsSettles ==
  /\ \E k \in 1..Len(watchers) :
       /\ watchers[k] = "getSessions"
       /\ watchers' = [watchers EXCEPT ![k] = "nextTick"]
  /\ \E ok \in BOOLEAN : Settled(IF ok THEN sessions ELSE <<>>)
  /\ UNCHANGED <<showChatRecordDrawer, currentSessionId, sessions, localQuery,
                 messageCount, visibleLog>>
  /\ UNCHANGED exceptDrawer

\* nextTick of one suspended callback is over: the message list is refreshed
NextTickDone ==
  /\ \E k \in 1..Len(watchers) :
       /\ watchers[k] = "nextTick"
       /\ watchers' = SubSeq(watchers, 1, k - 1) \o SubSeq(watchers, k + 1, Len(watchers))
  /\ UNCHANGED <<showChatRecordDrawer, currentSessionId, sessions, localQuery,
                 messageCount, activeSessionId, sessionsCache, visibleLog>>
  /\ UNCHANGED exceptDrawer

\* the drawer is closed: the watch callback clears the local state
CloseDrawer ==
  /\ showChatRecordDrawer
  /\ showChatRecordDrawer' = FALSE
  /\ localQuery' = "empty"
  /\ messageCount' = 0
  /\ activeSessionId' = Undefined
  /\ sessionsCache' = <<>>
  /\ UNCHANGED <<currentSessionId, sessions, watchers, visibleLog>>
  /\ UNCHANGED exceptDrawer

NextDrawer ==
  \/ handleApplyFilter
  \/ handleResetFilter
  \/ handleCountChange
  \/ handleVisibleMessageChange
  \/ handleSessionSelect
  \/ handleJumpToMessage
  \/ OpenDrawer
  \/ GetSessionsSettles
  \/ NextTickDone
  \/ CloseDrawer

SpecDrawer == InitDrawer /\ [][NextDrawer]_vars

(***************************************************************************)
(* The monologue ranking: the streak statistics over the messages          *)
(***************************************************************************)
ChatSenders == {"Alice", "Bob"}

\* the groups of GroupIDs: maximal runs of rows with the same sender_name, as
\* <<sender_name, streak_length>> in timestamp order
RECURSIVE Runs(_)
Runs(c) ==
  IF c = <<>> THEN <<>>
  ELSE LET rest == Runs(Tail(c))
       IN IF rest # <<>> /\ rest[1][1] = Head(c)
            THEN <<<<Head(c), rest[1][2] + 1>>>> \o Tail(rest)
            ELSE <<<<Head(c), 1>>>> \o rest

\* HAVING streak_length >= MinStreak
MinStreak == 2

StreakCounts(c) == SelectSeq(Runs(c), LAMBDA g : g[2] >= MinStreak)

\* MAX over a non-empty set of numbers
MaxOf(S) == CHOOSE x \in S : \A y \in S : y <= x

\* the final SELECT: one row per sender_name of StreakCounts
MonologueRank(c) ==
  LET sc == StreakCounts(c)
      of(s) == SelectSeq(sc, LAMBDA g : g[1] = s)
  IN [s \in {sc[k][1] : k \in 1..Len(sc)} |->
        [totalStreaks |-> Len(of(s)),
         maxCombo |-> MaxOf({of(s)[k][2] : k \in 1..Len(of(s))}),
         lowStreak |-> Len(SelectSeq(of(s), LAMBDA g : g[2] >= 2 /\ g[2] <= 4)),
         midStreak |-> Len(SelectSeq(of(s), LAMBDA g : g[2] >= 5 /\ g[2] <= 9)),
         highStreak |-> Len(SelectSeq(of(s), LAMBDA g : g[2] >= 10))]]

exceptMono == <<lineVars, migVars, sqlVars, ownerVars, replayVars, clockVars, typeVars,
                drawerVars>>

InitMonologue ==
  /\ chat = <<>>
  /\ monologue = <<>>
  /\ OwnerIdle /\ ReplayIdle /\ ClockIdle /\ TypeIdle /\ DrawerIdle
  /\ LineIdle
  /\ MigIdle
  /\ SqlIdle

\* a message is stored
StoreMessage ==
  /\ Len(chat) < MaxChatLen
  /\ \E s \in ChatSenders : chat' = Append(chat, s)
  /\ UNCHANGED monologue
  /\ UNCHANGED exceptMono

\* the statistics are computed over the stored messages
GetMonologueAnalysis ==
  /\ monologue' = <<[of |-> chat, rank |-> MonologueRank(chat)]>>
  /\ UNCHANGED chat
  /\ UNCHANGED exceptMono

NextMonologue ==
  \/ StoreMessage
  \/ GetMonologueAnalysis

SpecMonologue == InitMonologue /\ [][NextMonologue]_vars

(***************************************************************************)
(* The owner selector: the name displayed for a member                     *)
(***************************************************************************)
\* a name that is null or undefined
Missing == "<null>"

GroupNicknames == {Missing, "", "Ming", "xiaoming"}
AccountNames == {Missing, "", "Ming", "ming01"}
PlatformIds == {"u1", "u2"}

Members ==
  [groupNickname : GroupNicknames, accountName : AccountNames, platformId : PlatformIds]

\* a || b of JavaScript on names: a unless it is null, undefined or ''
OrElse(a, b) == IF a # Missing /\ a # "" THEN a ELSE b

\* mutant of getDisplayName: the account name before the group nickname
getDisplayNameAccountFirst(m) == OrElse(OrElse(m.accountName, m.groupNickname), m.platformId)

getDisplayName(m) == OrElse(OrElse(m.groupNickname, m.accountName), m.platformId)

\* COALESCE(a, b, c) of SQLite: the first argument that is not NULL
Coalesce(a, b, c) == IF a # Missing THEN a ELSE IF b # Missing THEN b ELSE c

\* the expression the prompt prescribes for a member's name in generated SQL
BestDisplayName(m) == Coalesce(m.groupNickname, m.accountName, m.platformId)

exceptOwner == <<lineVars, migVars, sqlVars, monoVars, replayVars, clockVars, typeVars,
                 drawerVars>>

InitOwner ==
  /\ member \in {<<m>> : m \in Members}
  /\ shown = <<>>
  /\ MonoIdle /\ ReplayIdle /\ ClockIdle /\ TypeIdle /\ DrawerIdle
  /\ LineIdle
  /\ MigIdle
  /\ SqlIdle

\* the parent hands another member to the selector
SetMember ==
  /\ \E m \in Members : member' = <<m>>
  /\ UNCHANGED shown
  /\ UNCHANGED exceptOwner

\* the selector renders the member's label
RenderMember ==
  /\ member # <<>>
  /\ shown' = <<[of |-> member[1], name |-> getDisplayName(member[1])]>>
  /\ UNCHANGED member
  /\ UNCHANGED exceptOwner

NextOwner ==
  \/ SetMember
  \/ RenderMember

SpecOwner == InitOwner /\ [][NextOwner]_vars

\* C11: a call leaves every table there was, every column and index there was,
\* the number of rows of meta, and what the rows stored before the call hold in
\* every column that existed; a column the call added reads its default in
\* those rows: '[]' for member.roles, NULL for the others.
C11_MigrationKeepsData ==
  \A k \in 1..Len(calls) :
    LET p == calls[k].pre
        q == calls[k].post
    IN /\ q.tables = p.tables
       /\ p.metaCols \subseteq q.metaCols
       /\ p.memberCols \subseteq q.memberCols
       /\ p.messageCols \subseteq q.messageCols
       /\ p.indexes \subseteq q.indexes
       /\ Len(q.metaRows) = Len(p.metaRows)
       /\ \A c \in DataCols :
            /\ p.cells[c] # Absent => q.cells[c] = p.cells[c]
            /\ (p.cells[c] = Absent /\ q.cells[c] # Absent)
                 => q.cells[c] = (IF c = "roles" THEN EmptyList ELSE NullText)

\* a call that returned after adding member.roles and the index to a store that
\* already had owner_id and reply_to_message_id
C11_Witness ==
  \E k \in 1..Len(calls) :
    LET p == calls[k].pre
        q == calls[k].post
    IN /\ Returned(calls[k])
       /\ p.cells["owner_id"] = Stored /\ q.cells["owner_id"] = Stored
       /\ p.cells["reply_to_message_id"] = Stored
       /\ "roles" \notin p.memberCols /\ q.cells["roles"] = EmptyList
       /\ "platform_message_id" \notin p.messageCols
       /\ q.cells["platform_message_id"] = NullText
       /\ p.indexes = {} /\ q.indexes # {}

\* C19: for the schema version v a call found, getPendingMigrationInfos(v) lists
\* in increasing version order the version, description and userMessage of
\* exactly the declared migrations above v, and a call that returns has
\* applied the migrations of that list, in that order.
C19_PendingInfosAreApplied ==
  \A k \in 1..Len(calls) :
    LET v == getSchemaVersion(calls[k].pre)
        r == getPendingMigrationInfos(v)
        InfoOf(m) == [version |-> m.version, description |-> m.description,
                      userMessage |-> m.userMessage]
    IN /\ \A i, j \in 1..Len(r) : i < j => r[i].version < r[j].version
       /\ Range(r) = {InfoOf(m) : m \in {x \in Range(MigrationList) : x.version > v}}
       /\ Returned(calls[k]) => calls[k].applied = [i \in 1..Len(r) |-> r[i].version]

\* a call that found version 1 and returned after applying migration 2 alone
C19_Witness ==
  \E k \in 1..Len(calls) :
    /\ Returned(calls[k])
    /\ getSchemaVersion(calls[k].pre) = 1
    /\ calls[k].applied = <<2>>
    /\ Len(getPendingMigrationInfos(1)) = 1

\* C20: a settled query that was not a single SELECT statement ended in an
\* error and left the store as it was; one that succeeded returned at most
\* RowCap rows, with `limited` set exactly when the statement matched more
\* rows than were returned.
C20_SelectOnlyAndCapped ==
  \A k \in 1..Len(sqlLog) :
    LET c == sqlLog[k]
    IN /\ ~IsSingleSelect(c.stmt) => (~c.ok /\ c.error # "null" /\ c.after = c.before)
       /\ c.ok => /\ c.after = c.before
                  /\ c.result[1].rowCount <= RowCap
                  /\ c.result[1].limited <=> (Matching(c.stmt, c.before) > c.result[1].rowCount)

\* a DELETE that was rejected on a store of more than RowCap rows, and a SELECT
\* on that store that came back truncated
C20_Witness ==
  \E j, k \in 1..Len(sqlLog) :
    /\ sqlLog[j].stmt = "deleteAll" /\ ~sqlLog[j].ok /\ sqlLog[j].before > RowCap
    /\ sqlLog[k].stmt = "selectAll" /\ sqlLog[k].ok
    /\ sqlLog[k].result[1].limited /\ sqlLog[k].result[1].rowCount = RowCap

\* the number of maximal runs of at least n consecutive messages of s in c
RunsAtLeast(c, s, n) ==
  Cardinality({i \in 1..Len(c) :
                 /\ c[i] = s
                 /\ (i = 1 \/ c[i - 1] # s)
                 /\ i + n - 1 <= Len(c)
                 /\ \A j \in i..(i + n - 1) : c[j] = s})

\* C21: in the statistics of a chat, a member's totalStreaks is the number of
\* this member's maximal runs of at least 3 consecutive messages, it is the sum
\* of lowStreak, midStreak and highStreak, and maxCombo is at least 3.
C21_StreaksOfThreeBucketed ==
  monologue # <<>>
    => LET c == monologue[1].of
           rank == monologue[1].rank
       IN \A s \in DOMAIN rank :
            /\ rank[s].totalStreaks = RunsAtLeast(c, s, 3)
            /\ rank[s].totalStreaks = rank[s].lowStreak + rank[s].midStreak + rank[s].highStreak
            /\ rank[s].maxCombo >= 3

\* C23: once the members event is emitted, the sender of every emitted message,
\* the sender of system messages included, is the platformId of exactly one
\* record of that event, and no two records of it share a platformId.
C23_SendersAreMembers ==
  \A e \in EventIdx("members") :
    LET ms == events[e].data
    IN /\ \A k \in 1..Len(EmittedMessages) :
            Cardinality({j \in 1..Len(ms) :
                           ms[j].platformId = EmittedMessages[k].senderPlatformId}) = 1
       /\ \A i, j \in 1..Len(ms) : ms[i].platformId = ms[j].platformId => i = j

\* C24: when the same file has been parsed twice with the same options, the
\* second parse ends with the event sequence of the first, message timestamps
\* included, whatever the wall-clock dates of the two parses.
C24_SameFileSameEvents ==
  (firstRun # <<>> /\ pc = "end") => events = firstRun[1]

\* the time string carries a PM marker, an AM marker
PmMarked(t) == ToLowerCase(t.suffix) = "pm" \/ t.prefix \in {"zh_pm", "ja_pm"}
AmMarked(t) == ToLowerCase(t.suffix) = "am" \/ t.prefix \in {"zh_am", "ja_am"}

\* C25: in the sender branch and in the system branch alike, the hour used for
\* a time stamp is: with a PM marker, h + 12 for h in 1..11 and 12 for 12; with
\* an AM marker, 0 for 12 and h for h in 1..11; without a marker, h.  (A marker
\* of one kind means that the string carries no marker of the other kind.)
C25_HourConversion ==
  stamp # <<>>
    => LET t == stamp[1].of
           h == stamp[1].hours
       IN /\ (PmMarked(t) /\ ~AmMarked(t) /\ t.h \in 1..11) => h = t.h + 12
          /\ (PmMarked(t) /\ ~AmMarked(t) /\ t.h = 12) => h = 12
          /\ (AmMarked(t) /\ ~PmMarked(t) /\ t.h = 12) => h = 0
          /\ (AmMarked(t) /\ ~PmMarked(t) /\ t.h \in 1..11) => h = t.h
          /\ (~AmMarked(t) /\ ~PmMarked(t)) => h = t.h
          /\ Hour24(t) = SystemHour24(t)

\* the system branch has converted 下午12 and the sender branch 7 PM
C25_Witness ==
  /\ stamp # <<>>
  /\ \/ /\ stamp[1].branch = "system"
        /\ stamp[1].of.prefix = "zh_pm" /\ stamp[1].of.suffix = ""
        /\ stamp[1].of.h = 12 /\ stamp[1].hours = 12
     \/ /\ stamp[1].branch = "sender"
        /\ stamp[1].of.prefix = "" /\ stamp[1].of.suffix = "Pm"
        /\ stamp[1].of.h = 12 /\ stamp[1].hours = 12

\* C26: for a message parsed under the date line of day D, the hour used is in
\* 0..23, the minute in 0..59, and the timestamp lies in day D, from D 00:00 up
\* to D 23:59.
C26_TimestampWithinDay ==
  stamp # <<>>
    => /\ stamp[1].hours \in 0..23
       /\ stamp[1].minutes \in 0..59
       /\ stamp[1].timestamp >= stamp[1].day * 86400
       /\ stamp[1].timestamp < (stamp[1].day + 1) * 86400

\* the four checks of detectMessageType, read off a content
StartsWithSpecialToken(c) ==
  \E k \in 1..Len(SPECIAL_MESSAGE_TYPES) : c # <<>> /\ c[1] = SPECIAL_MESSAGE_TYPES[k][1]
TypeOfSpecialToken(c) ==
  SPECIAL_MESSAGE_TYPES[CHOOSE k \in 1..Len(SPECIAL_MESSAGE_TYPES) :
                          c[1] = SPECIAL_MESSAGE_TYPES[k][1]][2]
IsMapLocation(c) == c # <<>> /\ c[1] = "[null]" /\ \E k \in 1..Len(c) : c[k] = "maps.google.com"
IsSystemNotice(c) ==
  \/ \E k \in 1..Len(c) : c[k] \in SystemPhrases
  \/ c = <<"Message unsent.">>
  \/ (c # <<>> /\ c[1] = "Auto-reply")
IsHttpLink(c) == c # <<>> /\ c[1] \in {"http://", "https://"}

\* the precedence of the four checks
PrecedenceHolds(c, ty) ==
  /\ StartsWithSpecialToken(c) => ty = TypeOfSpecialToken(c)
  /\ (~StartsWithSpecialToken(c) /\ IsMapLocation(c)) => ty = "location"
  /\ (~StartsWithSpecialToken(c) /\ ~IsMapLocation(c) /\ IsSystemNotice(c)) => ty = "system"
  /\ (~StartsWithSpecialToken(c) /\ ~IsMapLocation(c) /\ ~IsSystemNotice(c) /\ IsHttpLink(c))
       => ty = "link"
  /\ (~StartsWithSpecialToken(c) /\ ~IsMapLocation(c) /\ ~IsSystemNotice(c) /\ ~IsHttpLink(c))
       => ty = "text"

\* C27 as stated: the type of a content follows the precedence special token,
\* [null] map location, system notice, link, and it is text only when none of
\* the four applies.
C27_TextOnlyWhenNothingApplies ==
  detected # <<>>
    => LET c == detected[1].of
           ty == detected[1].type
       IN /\ PrecedenceHolds(c, ty)
          /\ ty = "text" => ~(StartsWithSpecialToken(c) \/ IsMapLocation(c)
                                \/ IsSystemNotice(c) \/ IsHttpLink(c))

\* C27 amended: the type of a content follows the precedence special token,
\* [null] map location, system notice, link; it is text when none of the four
\* applies, and otherwise only when the content starts with a special token
\* that the table maps to text (the Notes tokens).
C27_DetectPrecedence ==
  detected # <<>>
    => LET c == detected[1].of
           ty == detected[1].type
       IN /\ PrecedenceHolds(c, ty)
          /\ ty = "text" =>
               \/ ~(StartsWithSpecialToken(c) \/ IsMapLocation(c)
                      \/ IsSystemNotice(c) \/ IsHttpLink(c))
               \/ (StartsWithSpecialToken(c) /\ TypeOfSpecialToken(c) = "text")

\* a content that starts with a special token and carries a system phrase has
\* been given the type of the token
C27_Witness ==
  /\ detected # <<>>
  /\ detected[1].of = <<"Audio", " joined the group">>
  /\ detected[1].type = "voice"

\* the sessions of a cache that start at or before a message
StartedBy(cache, messageId) ==
  {k \in 1..Len(cache) : cache[k].firstMessageId <= messageId}

\* C28: handleVisibleMessageChange sets the active session to the session of
\* the cache with the greatest firstMessageId that is at most the visible
\* message id, and leaves the active session as it was when the cache is empty
\* or no session starts at or before that message.
C28_VisibleMessageActivatesSession ==
  visibleLog # <<>>
    => LET v == visibleLog[1]
           S == StartedBy(v.cache, v.messageId)
       IN IF S = {} THEN v.after = v.before
          ELSE \E k \in S :
                 /\ \A j \in S : v.cache[j].firstMessageId <= v.cache[k].firstMessageId
                 /\ v.after = v.cache[k].id

\* the handler has moved the active session to a session that starts exactly
\* at the visible message and is not the last of the cache
C28_Witness ==
  /\ visibleLog # <<>>
  /\ Len(visibleLog[1].cache) = 2
  /\ visibleLog[1].cache[1].firstMessageId = visibleLog[1].messageId
  /\ visibleLog[1].before = visibleLog[1].cache[2].id
  /\ visibleLog[1].after = visibleLog[1].cache[1].id

\* C29: while the drawer is closed its local state is cleared: the query is
\* empty, the message count 0, no session is active and the session cache is
\* empty, also after a session-list load of an earlier open has completed.
C29_ClosedDrawerIsCleared ==
  ~showChatRecordDrawer
    => /\ localQuery = "empty"
       /\ messageCount = 0
       /\ activeSessionId = Undefined
       /\ sessionsCache = <<>>

\* C30: once every started execution has settled, isExecuting is false and
\* what is displayed is the outcome of the execution that was started last:
\* its result with no error when it succeeded, its error with no result when
\* it failed.
C30_LastStartedIsDisplayed ==
  (started > 0 /\ inflight = {})
    => /\ ~isExecuting
       /\ \E k \in 1..Len(sqlLog) :
            /\ sqlLog[k].id = started
            /\ IF sqlLog[k].ok
                 THEN result = sqlLog[k].result /\ error = "null"
                 ELSE error = sqlLog[k].error /\ result = <<>>

\* a name that is neither absent nor empty
HasName(v) == v # Missing /\ v # ""

====
